---- MODULE Spec2Model ----
(***************************************************************************)
(* The weather advisor service (package advisor): the unary getAdvice and  *)
(* the server-streaming StreamAdvice handlers, with their collaborators    *)
(* (geocoding HTTP lookup, weather service, Gemini text generation, the    *)
(* gRPC stream and the Prometheus metrics) as the environment.             *)
(*                                                                         *)
(* A Go string is a sequence of pieces (TLA+ strings); concatenation is \o *)
(* and strings.Contains is a search for a contiguous run of pieces.  The   *)
(* error texts that the code searches are spelled out piece by character.  *)
(* A nil error is the empty sequence.                                      *)
(***************************************************************************)
EXTENDS Integers, Sequences, FiniteSets, Bags, TLC

VARIABLES
    pc,            \* position of the running handler
    mode,          \* "none", "unary" (getAdvice) or "stream" (StreamAdvice)
    cities,        \* the request's Cities, a sequence of locations
    idx,           \* index of the city the loop is at
    coord,         \* latitude/longitude of cities[idx], live from geocodeCity to the weather call
    weatherData,   \* the handler's weatherData slice
    failedCities,  \* StreamAdvice's failedCities slice
    pending,       \* parts of the pulled response not yet walked by the relay loop
    calls,         \* collaborator calls issued so far, in order
    lateCalls,     \* collaborators called with the stream's context already cancelled
    prompts,       \* prompts handed to the generative model, in order
    produced,      \* what the stream iterator has returned so far, in order
    sent,          \* chunks handed to stream.Send, in order, with Send's outcome
    cancelled,     \* the stream's context has been cancelled by the caller
    metrics,       \* advisor_requests_total by status, and duration samples
    result,        \* what the handler returned
    lookups,       \* the lookups geocodeCity was tried on, each with what it returned
    others         \* the handler calls in flight besides the running one: a bag of their locals

vars == <<pc, mode, cities, idx, coord, weatherData, failedCities, pending,
          calls, lateCalls, prompts, produced, sent, cancelled, metrics, result,
          lookups, others>>

-----------------------------------------------------------------------------
(* Bounds of the model *)

MaxCities == 2

MaxResponses == 2

MaxLookups == 2

\* handler calls in flight at once
MaxCalls == 2

-----------------------------------------------------------------------------
(* Strings *)

NoErr == <<>>

RECURSIVE Join(_, _)
Join(elems, sep) ==
    IF Len(elems) = 0 THEN <<>>
    ELSE IF Len(elems) = 1 THEN elems[1]
    ELSE elems[1] \o <<sep>> \o Join(Tail(elems), sep)

Contains(s, substr) ==
    \E k \in 0..(Len(s) - Len(substr)) : SubSeq(s, k + 1, k + Len(substr)) = substr

\* %.1f of a value held in hundredths: the sign, then the magnitude rounded to
\* the nearest tenth
FormatF1(x) ==
    LET a == IF x < 0 THEN -x ELSE x
        t == (a + 5) \div 10
    IN  <<(IF x < 0 THEN "-" ELSE ""), ToString(t \div 10), ".", ToString(t % 10)>>

\* %d
FormatD(n) == <<ToString(n)>>

-----------------------------------------------------------------------------
(* Inputs and the collaborators' possible answers *)

CityNames == {"Paris", "Oslo"}

Requests == UNION {[1..n -> CityNames] : n \in 0..MaxCities}

Coords == {[lat |-> 488566, lon |-> 23522], [lat |-> 599139, lon |-> 107522]}

NoCoord == [lat |-> 0, lon |-> 0]

\* what the HTTP lookup can answer: transport failure, a status, a body that
\* does or does not decode, and the decoded Results
GeoResponses ==
    {[reached |-> FALSE, status |-> 0, decodes |-> FALSE, results |-> <<>>],
     [reached |-> TRUE, status |-> 503, decodes |-> FALSE, results |-> <<>>],
     [reached |-> TRUE, status |-> 200, decodes |-> FALSE, results |-> <<>>],
     [reached |-> TRUE, status |-> 200, decodes |-> TRUE, results |-> <<>>]}
    \cup {[reached |-> TRUE, status |-> 200, decodes |-> TRUE, results |-> <<c>>] :
            c \in Coords}
    \cup {[reached |-> TRUE, status |-> 200, decodes |-> TRUE, results |-> <<p[1], p[2]>>] :
            p \in {q \in Coords \X Coords : q[1] # q[2]}}

\* weatherpb.WeatherResponse; Temperature and WindSpeed in hundredths
Observations ==
    {[Temperature |-> 2250, Description |-> "clear sky", Humidity |-> 40, WindSpeed |-> 320],
     [Temperature |-> -404, Description |-> "rain", Humidity |-> 85, WindSpeed |-> 1276]}

NoObs == [Temperature |-> 0, Description |-> "", Humidity |-> 0, WindSpeed |-> 0]

WeatherAnswers ==
    {[err |-> <<"weather service unavailable">>, resp |-> NoObs]}
    \cup {[err |-> NoErr, resp |-> o] : o \in Observations}

\* genai parts: a genai.Text or a part of another type
Text(s) == [isText |-> TRUE, val |-> s]

Blob == [isText |-> FALSE, val |-> "blob"]

\* genai.GenerateContentResponse: a sequence of candidates, each a sequence of parts
Responses ==
    {<<<<Text("Sunny. ")>>>>,
     <<<<Text("Take a coat."), Blob>>, <<Text("Or stay in.")>>>>}

\* a response without candidates
NoCandidates == <<>>

EOF == <<"E", "O", "F">>

IteratorStopped ==
    <<"i", "t", "e", "r", "a", "t", "o", "r", " ", "s", "t", "o", "p", "p", "e", "d">>

UnexpectedEOF == <<"u", "n", "e", "x", "p", "e", "c", "t", "e", "d", " ", "E", "O", "F">>

Unavailable == <<"u", "n", "a", "v", "a", "i", "l", "a", "b", "l", "e">>

\* the iterator's end-of-data signals, as the relay loop names them
EndOfData == {EOF, IteratorStopped}

\* errors the generative model's calls can return besides the end of data
GenuineErrors == {UnexpectedEOF, Unavailable}

IterErrors == EndOfData \cup GenuineErrors

-----------------------------------------------------------------------------
(* State after construction: no handler running *)

NoResult == [kind |-> "none", advice |-> <<>>, err |-> NoErr]

Init ==
    /\ pc = "idle"
    /\ mode = "none"
    /\ cities = <<>>
    /\ idx = 1
    /\ coord = NoCoord
    /\ weatherData = <<>>
    /\ failedCities = <<>>
    /\ pending = <<>>
    /\ calls = <<>>
    /\ lateCalls = {}
    /\ prompts = <<>>
    /\ produced = <<>>
    /\ sent = <<>>
    /\ cancelled = FALSE
    /\ metrics = [success |-> 0, error |-> 0, samples |-> 0]
    /\ result = NoResult
    /\ lookups = <<>>
    /\ others = EmptyBag

-----------------------------------------------------------------------------
(* Helpers of both handlers *)

\* a geocodeCity that returns the last match, and goes by the body whatever the status
geocodeCityLastMatch(location, resp) ==
    IF ~resp.reached
    THEN [lat |-> 0, lon |-> 0, err |-> <<"geocoding failed: ", "connection refused">>]
    ELSE IF ~resp.decodes
    THEN [lat |-> 0, lon |-> 0, err |-> <<"JSON decoding failed: ", "invalid character">>]
    ELSE IF Len(resp.results) = 0
    THEN [lat |-> 0, lon |-> 0, err |-> <<"no results found for city: ", location>>]
    ELSE [lat |-> resp.results[Len(resp.results)].lat,
          lon |-> resp.results[Len(resp.results)].lon, err |-> NoErr]

\* geocodeCity: the error and coordinates it returns for the lookup's answer
geocodeCity(location, resp) ==
    IF ~resp.reached
    THEN [lat |-> 0, lon |-> 0, err |-> <<"geocoding failed: ", "connection refused">>]
    ELSE IF resp.status # 200
    THEN [lat |-> 0, lon |-> 0, err |-> <<"geocoding failed: ", ToString(resp.status)>>]
    ELSE IF ~resp.decodes
    THEN [lat |-> 0, lon |-> 0, err |-> <<"JSON decoding failed: ", "invalid character">>]
    ELSE IF Len(resp.results) = 0
    THEN [lat |-> 0, lon |-> 0, err |-> <<"no results found for city: ", location>>]
    ELSE [lat |-> resp.results[1].lat, lon |-> resp.results[1].lon, err |-> NoErr]

\* the weatherInfo line of one city
WeatherInfo(location, w) ==
    <<"City: ", location, ", Temp: ">> \o FormatF1(w.Temperature)
        \o <<"°C, Condition: ", w.Description, ", Humidity: ">> \o FormatD(w.Humidity)
        \o <<"%, Wind: ">> \o FormatF1(w.WindSpeed) \o <<" m/s">>

\* a record of the calls log: the collaborator, the city it was called for (0 for
\* the generative model), whether it succeeded, and the weather it returned
Call(svc, i, ok, w) == [svc |-> svc, i |-> i, ok |-> ok, weather |-> w]

\* a collaborator is called
Issue(svc, i, ok, w) ==
    /\ calls' = Append(calls, Call(svc, i, ok, w))
    /\ lateCalls' = IF cancelled THEN lateCalls \cup {svc} ELSE lateCalls

\* a return that counts every call as a success
ReturnCountsSuccess(status, res) ==
    /\ metrics' = [metrics EXCEPT !.success = @ + 1, !.samples = @ + 1]
    /\ result' = res
    /\ pc' = "done"

\* advisorRequests.WithLabelValues(status).Inc(), and the deferred
\* timer.ObserveDuration() that runs as the handler returns
Return(status, res) ==
    /\ metrics' = [metrics EXCEPT ![status] = @ + 1, !.samples = @ + 1]
    /\ result' = res
    /\ pc' = "done"

ErrorResult(e) == [kind |-> "error", advice |-> <<>>, err |-> e]

-----------------------------------------------------------------------------
(* getAdvice, the unary handler *)

UnaryPromptHead == "Weather advisor. Based on this data provide practical advice: "

UnaryPromptTail ==
    " Include: summary, clothing advice, activity suggestions, places to visit if good weather, warnings. Keep it concise."

\* generateAdvice: the prompt it builds
UnaryPrompt(data) == <<UnaryPromptHead>> \o Join(data, "\n") \o <<UnaryPromptTail>>

\* the texts among a candidate's parts, concatenated
RECURSIVE TextOf(_)
TextOf(parts) ==
    IF Len(parts) = 0 THEN <<>>
    ELSE (IF parts[1].isText THEN <<parts[1].val>> ELSE <<>>) \o TextOf(Tail(parts))

\* generateAdvice: what it returns for the model's answer (an error, or a response)
generateAdvice(apiErr, resp) ==
    IF apiErr # NoErr THEN [advice |-> <<>>, err |-> <<"gemini API failed: ">> \o apiErr]
    ELSE IF Len(resp) = 0 THEN [advice |-> <<>>, err |-> <<"no response generated">>]
    ELSE [advice |-> TextOf(resp[1]), err |-> NoErr]

\* a getAdvice that refuses a request without cities
GetAdviceRejectsEmpty ==
    /\ pc = "idle"
    /\ \E req \in Requests :
        /\ cities' = req
        /\ IF Len(req) > 0
           THEN pc' = "geocode" /\ UNCHANGED <<metrics, result>>
           ELSE Return("error", ErrorResult(<<"no cities given">>))
    /\ mode' = "unary"
    /\ UNCHANGED <<idx, coord, weatherData, failedCities, pending, calls, lateCalls, prompts,
                   produced, sent, cancelled>>
    /\ UNCHANGED <<lookups, others>>

GetAdvice ==
    /\ pc = "idle"
    /\ \E req \in Requests :
        /\ cities' = req
        /\ pc' = IF Len(req) > 0 THEN "geocode" ELSE "generate"
    /\ mode' = "unary"
    /\ UNCHANGED <<idx, coord, weatherData, failedCities, pending, calls, lateCalls, prompts,
                   produced, sent, cancelled, metrics, result>>
    /\ UNCHANGED <<lookups, others>>

\* a getAdvice that skips a city it cannot resolve, as StreamAdvice does
GetAdviceGeocodeSkipsCity ==
    /\ pc = "geocode" /\ mode = "unary"
    /\ \E resp \in GeoResponses :
        LET g == geocodeCity(cities[idx], resp) IN
        /\ Issue("geocode", idx, g.err = NoErr, NoObs)
        /\ IF g.err # NoErr
           THEN /\ idx' = idx + 1
                /\ pc' = IF idx < Len(cities) THEN "geocode" ELSE "generate"
                /\ UNCHANGED coord
           ELSE /\ coord' = [lat |-> g.lat, lon |-> g.lon]
                /\ pc' = "weather"
                /\ UNCHANGED idx
    /\ UNCHANGED <<mode, cities, weatherData, failedCities, pending, prompts,
                   produced, sent, cancelled, metrics, result>>
    /\ UNCHANGED <<lookups, others>>

GetAdviceGeocode ==
    /\ pc = "geocode" /\ mode = "unary"
    /\ \E resp \in GeoResponses :
        LET g == geocodeCity(cities[idx], resp) IN
        /\ Issue("geocode", idx, g.err = NoErr, NoObs)
        /\ IF g.err # NoErr
           THEN /\ Return("error",
                       ErrorResult(<<"geocoding failed for ", cities[idx], ": ">> \o g.err))
                /\ UNCHANGED coord
           ELSE /\ coord' = [lat |-> g.lat, lon |-> g.lon]
                /\ pc' = "weather"
                /\ UNCHANGED <<metrics, result>>
    /\ UNCHANGED <<mode, cities, idx, weatherData, failedCities, pending, prompts,
                   produced, sent, cancelled>>
    /\ UNCHANGED <<lookups, others>>

GetAdviceWeather ==
    /\ pc = "weather" /\ mode = "unary"
    /\ \E w \in WeatherAnswers :
        /\ Issue("weather", idx, w.err = NoErr, w.resp)
        /\ IF w.err # NoErr
           THEN /\ Return("error",
                       ErrorResult(<<"weather request failed for ", cities[idx], ": ">>
                                   \o w.err))
                /\ UNCHANGED <<idx, weatherData>>
           ELSE /\ weatherData' = Append(weatherData, WeatherInfo(cities[idx], w.resp))
                /\ idx' = idx + 1
                /\ pc' = IF idx < Len(cities) THEN "geocode" ELSE "generate"
                /\ UNCHANGED <<metrics, result>>
    /\ coord' = NoCoord
    /\ UNCHANGED <<mode, cities, failedCities, pending, prompts, produced, sent, cancelled>>
    /\ UNCHANGED <<lookups, others>>

GetAdviceGenerate ==
    /\ pc = "generate" /\ mode = "unary"
    /\ prompts' = Append(prompts, UnaryPrompt(weatherData))
    /\ \E a \in {[err |-> e, resp |-> <<>>] : e \in GenuineErrors}
                 \cup {[err |-> NoErr, resp |-> r] : r \in Responses \cup {NoCandidates}} :
        LET g == generateAdvice(a.err, a.resp) IN
        /\ Issue("generate", 0, a.err = NoErr, NoObs)
        /\ IF g.err # NoErr
           THEN Return("error", ErrorResult(<<"advice generation failed: ">> \o g.err))
           ELSE Return("success", [kind |-> "response", advice |-> g.advice, err |-> NoErr])
    /\ UNCHANGED <<mode, cities, idx, coord, weatherData, failedCities, pending,
                   produced, sent, cancelled>>
    /\ UNCHANGED <<lookups, others>>

-----------------------------------------------------------------------------
(* StreamAdvice, the server-streaming handler *)

StreamPromptHead == "Weather advisor. Based on this data provide practical advice: "

StreamPromptTail ==
    " Include: summary, clothing advice, activity suggestions, warnings. Keep it concise."

\* streamAdviceGeneration: the prompt it builds
StreamPrompt(data) == <<StreamPromptHead>> \o Join(data, "\n") \o <<StreamPromptTail>>

\* a message that always carries the failed-cities line
DiagnosticMessageAlwaysLists(failed) ==
    <<"i could not get any weather data for any of the cities">>
        \o <<"\nFailed to get weather data for: ">> \o Join(failed, ", ")
        \o <<"\nPlease check the city names and try again.">>

\* the message of the chunk sent when weatherData is empty
DiagnosticMessage(failed) ==
    <<"i could not get any weather data for any of the cities">>
        \o (IF Len(failed) > 0
            THEN <<"\nFailed to get weather data for: ">> \o Join(failed, ", ")
            ELSE <<>>)
        \o <<"\nPlease check the city names and try again.">>

\* a chunk handed to stream.Send, and whether Send returned nil
Chunk(text, complete, ok) == [Chunk |-> text, IsComplete |-> complete, ok |-> ok]

SendError == <<"transport is closing">>

\* an end-of-stream test that knows "iterator stopped" only
IsEndOfStreamOnlyStopped(err) == Contains(err, IteratorStopped)

\* the relay loop's test for the end of the iterator
IsEndOfStream(err) == Contains(err, EOF) \/ Contains(err, IteratorStopped)

\* the parts of all candidates of a response, in the order the relay loop walks them
RECURSIVE Parts(_)
Parts(resp) == IF Len(resp) = 0 THEN <<>> ELSE resp[1] \o Parts(Tail(resp))

\* a StreamAdvice that counts an error without saying why it failed
StreamAdviceReturnCountsError(err) ==
    IF err # NoErr
    THEN Return("error", ErrorResult(<<"advice generation failed: ">> \o err))
    ELSE Return("error", [kind |-> "ok", advice |-> <<>>, err |-> NoErr])

\* what StreamAdvice does with streamAdviceGeneration's return value
StreamAdviceReturn(err) ==
    IF err # NoErr
    THEN Return("error", ErrorResult(<<"advice generation failed: ">> \o err))
    ELSE Return("success", [kind |-> "ok", advice |-> <<>>, err |-> NoErr])

StreamAdvice ==
    /\ pc = "idle"
    /\ \E req \in Requests :
        /\ cities' = req
        /\ pc' = IF Len(req) > 0 THEN "geocode" ELSE "collected"
    /\ mode' = "stream"
    /\ UNCHANGED <<idx, coord, weatherData, failedCities, pending, calls, lateCalls, prompts,
                   produced, sent, cancelled, metrics, result>>
    /\ UNCHANGED <<lookups, others>>

\* the caller disconnects: the context of the stream is cancelled
Cancel ==
    /\ mode = "stream" /\ pc # "done" /\ ~cancelled
    /\ cancelled' = TRUE
    /\ UNCHANGED <<pc, mode, cities, idx, coord, weatherData, failedCities, pending,
                   calls, lateCalls, prompts, produced, sent, metrics, result>>
    /\ UNCHANGED <<lookups, others>>

\* a StreamAdvice that forgets the city it cannot resolve
StreamGeocodeDropsFailed ==
    /\ pc = "geocode" /\ mode = "stream"
    /\ \E resp \in GeoResponses :
        LET g == geocodeCity(cities[idx], resp) IN
        /\ Issue("geocode", idx, g.err = NoErr, NoObs)
        /\ IF g.err # NoErr
           THEN /\ idx' = idx + 1
                /\ pc' = IF idx < Len(cities) THEN "geocode" ELSE "collected"
                /\ UNCHANGED coord
           ELSE /\ coord' = [lat |-> g.lat, lon |-> g.lon]
                /\ pc' = "weather"
                /\ UNCHANGED idx
    /\ UNCHANGED <<mode, cities, failedCities, weatherData, pending, prompts, produced,
                   sent, cancelled, metrics, result>>
    /\ UNCHANGED <<lookups, others>>

\* a StreamAdvice that fails the call on a city it cannot resolve, as getAdvice does
StreamGeocodeFailFast ==
    /\ pc = "geocode" /\ mode = "stream"
    /\ \E resp \in GeoResponses :
        LET g == geocodeCity(cities[idx], resp) IN
        /\ Issue("geocode", idx, g.err = NoErr, NoObs)
        /\ IF g.err # NoErr
           THEN /\ Return("error",
                       ErrorResult(<<"geocoding failed for ", cities[idx], ": ">> \o g.err))
                /\ UNCHANGED coord
           ELSE /\ coord' = [lat |-> g.lat, lon |-> g.lon]
                /\ pc' = "weather"
                /\ UNCHANGED <<metrics, result>>
    /\ UNCHANGED <<mode, cities, idx, weatherData, failedCities, pending, prompts,
                   produced, sent, cancelled>>
    /\ UNCHANGED <<lookups, others>>

\* a StreamAdvice that tries a city again when its resolution fails
StreamGeocodeRetries ==
    /\ pc = "geocode" /\ mode = "stream"
    /\ \E resp \in GeoResponses :
        LET g == geocodeCity(cities[idx], resp) IN
        /\ Issue("geocode", idx, g.err = NoErr, NoObs)
        /\ IF g.err # NoErr
           THEN /\ pc' = "geocode"
                /\ UNCHANGED coord
           ELSE /\ coord' = [lat |-> g.lat, lon |-> g.lon]
                /\ pc' = "weather"
    /\ UNCHANGED <<mode, cities, idx, failedCities, weatherData, pending, prompts,
                   produced, sent, cancelled, metrics, result>>
    /\ UNCHANGED <<lookups, others>>

StreamGeocode ==
    /\ pc = "geocode" /\ mode = "stream"
    /\ \E resp \in GeoResponses :
        LET g == geocodeCity(cities[idx], resp) IN
        /\ Issue("geocode", idx, g.err = NoErr, NoObs)
        /\ IF g.err # NoErr
           THEN /\ failedCities' = Append(failedCities, <<cities[idx]>>)
                /\ idx' = idx + 1
                /\ pc' = IF idx < Len(cities) THEN "geocode" ELSE "collected"
                /\ UNCHANGED coord
           ELSE /\ coord' = [lat |-> g.lat, lon |-> g.lon]
                /\ pc' = "weather"
                /\ UNCHANGED <<idx, failedCities>>
    /\ UNCHANGED <<mode, cities, weatherData, pending, prompts, produced, sent,
                   cancelled, metrics, result>>
    /\ UNCHANGED <<lookups, others>>

\* a StreamAdvice that formats a line for a city whose weather fetch failed
StreamWeatherKeepsFailed ==
    /\ pc = "weather" /\ mode = "stream"
    /\ \E w \in WeatherAnswers :
        /\ Issue("weather", idx, w.err = NoErr, w.resp)
        /\ weatherData' = Append(weatherData, WeatherInfo(cities[idx], w.resp))
        /\ IF w.err # NoErr
           THEN failedCities' = Append(failedCities, <<cities[idx], " (weather failed)">>)
           ELSE UNCHANGED failedCities
    /\ idx' = idx + 1
    /\ coord' = NoCoord
    /\ pc' = IF idx < Len(cities) THEN "geocode" ELSE "collected"
    /\ UNCHANGED <<mode, cities, pending, prompts, produced, sent, cancelled, metrics, result>>
    /\ UNCHANGED <<lookups, others>>

StreamWeather ==
    /\ pc = "weather" /\ mode = "stream"
    /\ \E w \in WeatherAnswers :
        /\ Issue("weather", idx, w.err = NoErr, w.resp)
        /\ IF w.err # NoErr
           THEN /\ failedCities' = Append(failedCities, <<cities[idx], " (weather failed)">>)
                /\ UNCHANGED weatherData
           ELSE /\ weatherData' = Append(weatherData, WeatherInfo(cities[idx], w.resp))
                /\ UNCHANGED failedCities
    /\ idx' = idx + 1
    /\ coord' = NoCoord
    /\ pc' = IF idx < Len(cities) THEN "geocode" ELSE "collected"
    /\ UNCHANGED <<mode, cities, pending, prompts, produced, sent, cancelled, metrics, result>>
    /\ UNCHANGED <<lookups, others>>

\* len(weatherData) == 0: one chunk with the message, and the handler returns
StreamDiagnostic ==
    /\ pc = "collected" /\ mode = "stream"
    /\ Len(weatherData) = 0
    /\ \E ok \in BOOLEAN :
        /\ sent' = Append(sent, Chunk(DiagnosticMessage(failedCities), TRUE, ok))
        /\ IF ok
           THEN Return("success", [kind |-> "ok", advice |-> <<>>, err |-> NoErr])
           ELSE Return("error", ErrorResult(SendError))
    /\ UNCHANGED <<mode, cities, idx, coord, weatherData, failedCities, pending, calls, lateCalls,
                   prompts, produced, cancelled>>
    /\ UNCHANGED <<lookups, others>>

\* a StreamAdvice that goes on to the generative model with no weather data
StreamGenerateUnguarded ==
    /\ pc = "collected" /\ mode = "stream"
    /\ prompts' = Append(prompts, StreamPrompt(weatherData))
    /\ Issue("generate", 0, TRUE, NoObs)
    /\ pc' = "next"
    /\ UNCHANGED <<mode, cities, idx, coord, weatherData, failedCities, pending,
                   produced, sent, cancelled, metrics, result>>
    /\ UNCHANGED <<lookups, others>>

\* streamAdviceGeneration up to the creation of the iterator
StreamGenerate ==
    /\ pc = "collected" /\ mode = "stream"
    /\ Len(weatherData) > 0
    /\ prompts' = Append(prompts, StreamPrompt(weatherData))
    /\ Issue("generate", 0, TRUE, NoObs)
    /\ pc' = "next"
    /\ UNCHANGED <<mode, cities, idx, coord, weatherData, failedCities, pending,
                   produced, sent, cancelled, metrics, result>>
    /\ UNCHANGED <<lookups, others>>

NumResponses == Cardinality({k \in 1..Len(produced) : produced[k].err = NoErr})

\* iter.Next() returns a response: the relay loop is to walk its parts
StreamNextResponse ==
    /\ pc = "next" /\ mode = "stream"
    /\ NumResponses < MaxResponses
    /\ \E r \in Responses :
        /\ produced' = Append(produced, [err |-> NoErr, resp |-> r])
        /\ pending' = Parts(r)
        /\ pc' = IF Len(Parts(r)) > 0 THEN "relay" ELSE "next"
    /\ UNCHANGED <<mode, cities, idx, coord, weatherData, failedCities, calls, lateCalls,
                   prompts, sent, cancelled, metrics, result>>
    /\ UNCHANGED <<lookups, others>>

\* a relay loop that pulls once more after the first failure of the iterator
StreamNextErrorPullsAgain ==
    /\ pc = "next" /\ mode = "stream"
    /\ \E e \in IterErrors :
        /\ produced' = Append(produced, [err |-> e, resp |-> <<>>])
        /\ IF IsEndOfStream(e)
           THEN \E ok \in BOOLEAN :
                   /\ sent' = Append(sent, Chunk(<<>>, TRUE, ok))
                   /\ StreamAdviceReturn(IF ok THEN NoErr ELSE SendError)
           ELSE IF \E k \in 1..Len(produced) : produced[k].err # NoErr
           THEN /\ StreamAdviceReturn(<<"streaming failed: ">> \o e)
                /\ UNCHANGED sent
           ELSE UNCHANGED <<pc, sent, metrics, result>>
    /\ UNCHANGED <<mode, cities, idx, coord, weatherData, failedCities, pending,
                   calls, lateCalls, prompts, cancelled>>
    /\ UNCHANGED <<lookups, others>>

\* iter.Next() returns an error: the end of the stream, or a failure
StreamNextError ==
    /\ pc = "next" /\ mode = "stream"
    /\ \E e \in IterErrors :
        /\ produced' = Append(produced, [err |-> e, resp |-> <<>>])
        /\ IF IsEndOfStream(e)
           THEN \E ok \in BOOLEAN :
                   /\ sent' = Append(sent, Chunk(<<>>, TRUE, ok))
                   /\ StreamAdviceReturn(IF ok THEN NoErr ELSE SendError)
           ELSE /\ StreamAdviceReturn(<<"streaming failed: ">> \o e)
                /\ UNCHANGED sent
    /\ UNCHANGED <<mode, cities, idx, coord, weatherData, failedCities, pending,
                   calls, lateCalls, prompts, cancelled>>
    /\ UNCHANGED <<lookups, others>>

\* a relay loop that goes on after a send has failed
StreamRelayIgnoresSendError ==
    /\ pc = "relay" /\ mode = "stream"
    /\ IF pending[1].isText
       THEN \E ok \in BOOLEAN : sent' = Append(sent, Chunk(<<pending[1].val>>, FALSE, ok))
       ELSE UNCHANGED sent
    /\ pending' = Tail(pending)
    /\ pc' = IF Len(pending) > 1 THEN "relay" ELSE "next"
    /\ UNCHANGED <<mode, cities, idx, coord, weatherData, failedCities, calls, lateCalls,
                   prompts, produced, cancelled, metrics, result>>
    /\ UNCHANGED <<lookups, others>>

\* a relay loop that sends every part, whatever its type
StreamRelaySendsEveryPart ==
    /\ pc = "relay" /\ mode = "stream"
    /\ \E ok \in BOOLEAN :
        /\ sent' = Append(sent, Chunk(<<pending[1].val>>, FALSE, ok))
        /\ IF ok
           THEN /\ pending' = Tail(pending)
                /\ pc' = IF Len(pending) > 1 THEN "relay" ELSE "next"
                /\ UNCHANGED <<metrics, result>>
           ELSE /\ StreamAdviceReturn(<<"failed to send chunk: ">> \o SendError)
                /\ UNCHANGED pending
    /\ UNCHANGED <<mode, cities, idx, coord, weatherData, failedCities, calls, lateCalls,
                   prompts, produced, cancelled>>
    /\ UNCHANGED <<lookups, others>>

\* one step of the loops over the candidates' parts: a text is sent as a chunk
StreamRelay ==
    /\ pc = "relay" /\ mode = "stream"
    /\ IF pending[1].isText
       THEN \E ok \in BOOLEAN :
               /\ sent' = Append(sent, Chunk(<<pending[1].val>>, FALSE, ok))
               /\ IF ok
                  THEN /\ pending' = Tail(pending)
                       /\ pc' = IF Len(pending) > 1 THEN "relay" ELSE "next"
                       /\ UNCHANGED <<metrics, result>>
                  ELSE /\ StreamAdviceReturn(<<"failed to send chunk: ">> \o SendError)
                       /\ UNCHANGED pending
       ELSE /\ pending' = Tail(pending)
            /\ pc' = IF Len(pending) > 1 THEN "relay" ELSE "next"
            /\ UNCHANGED <<sent, metrics, result>>
    /\ UNCHANGED <<mode, cities, idx, coord, weatherData, failedCities, calls, lateCalls,
                   prompts, produced, cancelled>>
    /\ UNCHANGED <<lookups, others>>

-----------------------------------------------------------------------------

Next ==
    \/ GetAdvice
    \/ GetAdviceGeocode
    \/ GetAdviceWeather
    \/ GetAdviceGenerate
    \/ StreamAdvice
    \/ Cancel
    \/ StreamGeocode
    \/ StreamWeather
    \/ StreamDiagnostic
    \/ StreamGenerate
    \/ StreamNextResponse
    \/ StreamNextError
    \/ StreamRelay

Spec == Init /\ [][Next]_vars

\* the steps the goroutine of a StreamAdvice call takes by itself
StreamStep ==
    \/ StreamGeocode
    \/ StreamWeather
    \/ StreamDiagnostic
    \/ StreamGenerate
    \/ StreamNextResponse
    \/ StreamNextError
    \/ StreamRelay

StreamNext == StreamAdvice \/ Cancel \/ StreamStep

\* a StreamAdvice call whose goroutine keeps running: every call it makes to a
\* collaborator returns, and the iterator yields at most MaxResponses responses
LiveSpec == Init /\ [][StreamNext]_vars /\ WF_vars(StreamStep)

-----------------------------------------------------------------------------
(* geocodeCity on its own: one lookup after the other, for any location and any *)
(* answer of the lookup service                                                 *)

Lookup ==
    /\ Len(lookups) < MaxLookups
    /\ \E location \in CityNames, resp \in GeoResponses :
        lookups' = Append(lookups, [location |-> location, resp |-> resp,
                                    ret |-> geocodeCity(location, resp)])
    /\ UNCHANGED <<pc, mode, cities, idx, coord, weatherData, failedCities, pending,
                   calls, lateCalls, prompts, produced, sent, cancelled, metrics, result,
                   others>>

GeocodeSpec == Init /\ [][Lookup]_vars

-----------------------------------------------------------------------------
(* What the logs say about a call *)

Unary == mode = "unary"

Streaming == mode = "stream"

Done == pc = "done"

\* the per-city calls that failed, as indexes of the calls log
FailedCalls == {k \in 1..Len(calls) : calls[k].svc # "generate" /\ ~calls[k].ok}

\* city i of the request was tried and its resolution or its weather fetch failed
CityFailed(i) == \E k \in FailedCalls : calls[k].i = i

\* city i of the request was resolved and its weather was fetched
CitySucceeded(i) == \E k \in 1..Len(calls) : calls[k].svc = "weather" /\ calls[k].i = i /\ calls[k].ok

GeneratorCalls == {k \in 1..Len(calls) : calls[k].svc = "generate"}

\* the collection loop has gone through the whole request and every city failed
EveryCityFailed == idx > Len(cities) /\ \A i \in 1..Len(cities) : CityFailed(i)

TerminalChunks == {k \in 1..Len(sent) : sent[k].IsComplete}

FailedSends == {k \in 1..Len(sent) : ~sent[k].ok}

-----------------------------------------------------------------------------
(* C1: getAdvice is fail-fast.  As soon as the resolution or the weather   *)
(* fetch of a city fails, the call has returned an error that names that   *)
(* city, which is the first failing city in input order; it returns no      *)
(* response, the generative model is never invoked, and no resolver or      *)
(* weather call follows the failing one.                                    *)
C1_UnaryFailFast ==
    (Unary /\ FailedCalls # {}) =>
        \E k \in FailedCalls :
            /\ k = Len(calls)
            /\ \A j \in 1..(k - 1) : calls[j].ok /\ calls[j].i <= calls[k].i
            /\ \A i \in 1..(calls[k].i - 1) : CitySucceeded(i)
            /\ Done
            /\ result.kind = "error"
            /\ result.advice = <<>>
            /\ result.err[2] = cities[calls[k].i]
            /\ Len(result.err) > 3
            /\ GeneratorCalls = {}
            /\ prompts = <<>>

\* the first of two cities fails resolution
C1_Witness ==
    /\ Unary /\ Done
    /\ Len(cities) = 2
    /\ Len(calls) = 1
    /\ calls[1].svc = "geocode" /\ ~calls[1].ok
    /\ result.kind = "error"

(* C2: when every city of a StreamAdvice request fails, exactly one chunk is *)
(* sent, it has IsComplete = true and a non-empty text, and the generative   *)
(* model is never invoked.                                                   *)
C2_AllFailedOneDiagnosticChunk ==
    (Streaming /\ EveryCityFailed) =>
        /\ GeneratorCalls = {}
        /\ prompts = <<>>
        /\ produced = <<>>
        /\ pc \in {"collected", "done"}
        /\ pc = "collected" => sent = <<>>
        /\ Done =>
            /\ Len(sent) = 1
            /\ sent[1].IsComplete
            /\ Len(sent[1].Chunk) > 0
            /\ \A j \in 1..Len(sent[1].Chunk) : sent[1].Chunk[j] # ""

\* two cities, one failing resolution and the other its weather fetch
C2_Witness ==
    /\ Streaming /\ Done
    /\ Len(cities) = 2
    /\ \E k \in FailedCalls : calls[k].svc = "geocode"
    /\ \E k \in FailedCalls : calls[k].svc = "weather"
    /\ EveryCityFailed
    /\ Len(sent) = 1

\* the weatherInfo lines of the cities that succeeded, in the order of the calls
SuccessfulLines ==
    LET ok == SelectSeq(calls, LAMBDA c : c.svc = "weather" /\ c.ok)
    IN  [k \in 1..Len(ok) |-> WeatherInfo(cities[ok[k].i], ok[k].weather)]

\* how many lines a prompt holds
CityLines(prompt) == Cardinality({k \in 1..Len(prompt) : prompt[k] = "City: "})

(* C3: the prompt StreamAdvice hands to the generative model holds the line *)
(* of every city of the request whose resolution and weather fetch both     *)
(* succeeded, in input order, and nothing else: as many lines as there are   *)
(* successful cities, and no line naming a location that only failed.        *)
C3_PromptOnlySuccessfulCities ==
    (Streaming /\ prompts # <<>>) =>
        /\ Len(prompts) = 1
        /\ \E i \in 1..Len(cities) : CitySucceeded(i)
        /\ prompts[1] = StreamPrompt(SuccessfulLines)
        /\ \A i \in 1..Len(cities) :
            CitySucceeded(i) =>
                \E k \in 1..Len(calls) :
                    /\ calls[k].svc = "weather" /\ calls[k].i = i
                    /\ Contains(prompts[1], WeatherInfo(cities[i], calls[k].weather))
        /\ CityLines(prompts[1]) = Cardinality({i \in 1..Len(cities) : CitySucceeded(i)})
        /\ \A i \in 1..Len(cities) :
            (CityFailed(i) /\ ~\E j \in 1..Len(cities) : CitySucceeded(j) /\ cities[j] = cities[i])
                => ~Contains(prompts[1], <<"City: ", cities[i]>>)

\* two different cities, the first succeeds and the second fails
C3_Witness ==
    /\ Streaming /\ prompts # <<>>
    /\ Len(cities) = 2 /\ cities[1] # cities[2]
    /\ CitySucceeded(1) /\ CityFailed(2)

-----------------------------------------------------------------------------
(* The generative model's text fragments and the chunks sent *)

\* the texts among the parts of one candidate, one chunk text each
RECURSIVE CandidateTexts(_)
CandidateTexts(parts) ==
    IF Len(parts) = 0 THEN <<>>
    ELSE (IF parts[1].isText THEN <<<<parts[1].val>>>> ELSE <<>>) \o CandidateTexts(Tail(parts))

RECURSIVE ResponseTexts(_)
ResponseTexts(resp) ==
    IF Len(resp) = 0 THEN <<>> ELSE CandidateTexts(resp[1]) \o ResponseTexts(Tail(resp))

\* the text fragments of what the iterator returned, in the order it returned them
RECURSIVE FragmentsOf(_)
FragmentsOf(items) ==
    IF Len(items) = 0 THEN <<>> ELSE ResponseTexts(items[1].resp) \o FragmentsOf(Tail(items))

Fragments == FragmentsOf(produced)

\* the texts of the non-terminal chunks sent, in the order they were sent
NonTerminalTexts ==
    LET nt == SelectSeq(sent, LAMBDA c : ~c.IsComplete)
    IN  [k \in 1..Len(nt) |-> nt[k].Chunk]

IsPrefix(a, b) == Len(a) <= Len(b) /\ SubSeq(b, 1, Len(a)) = a

\* iter.Next() returned an error that is not the end of the data
GenerationFailed == \E k \in 1..Len(produced) : produced[k].err \in GenuineErrors

\* iter.Next() returned the end of the data
DataEnded == \E k \in 1..Len(produced) : produced[k].err \in EndOfData

(* C4 as stated: in every StreamAdvice call the non-terminal chunks sent are *)
(* exactly the generative model's text fragments in order, exactly one       *)
(* terminal chunk is emitted, and it is the last chunk.                      *)
C4_ExactlyOneTerminalInEveryCall ==
    (Streaming /\ Done) =>
        /\ NonTerminalTexts = Fragments
        /\ Cardinality(TerminalChunks) = 1
        /\ Len(sent) > 0 /\ sent[Len(sent)].IsComplete

(* C4 amended: in every StreamAdvice call the non-terminal chunks sent are a *)
(* prefix of the generative model's text fragments in the order it produced   *)
(* them, and all of them once the terminal chunk follows them; at most one    *)
(* terminal chunk is emitted and no chunk is sent after it; a call that       *)
(* returns without error has emitted exactly one, and a call that returns an  *)
(* error has emitted none unless the failed send was that of the terminal     *)
(* chunk itself.                                                              *)
C4_ChunkOrderAtMostOneTerminal ==
    Streaming =>
        /\ IsPrefix(NonTerminalTexts, Fragments)
        /\ Cardinality(TerminalChunks) <= 1
        /\ \A k \in TerminalChunks : k = Len(sent)
        /\ (TerminalChunks # {} /\ prompts # <<>>) => NonTerminalTexts = Fragments
        /\ (Done /\ result.kind = "ok") => Cardinality(TerminalChunks) = 1
        /\ (Done /\ result.kind = "error" /\ TerminalChunks # {}) => ~sent[Len(sent)].ok

\* two responses relayed as four chunks, then the terminal chunk
C4_Witness ==
    /\ Streaming /\ Done /\ result.kind = "ok"
    /\ NumResponses = 2
    /\ Len(sent) = 5
    /\ sent[5].IsComplete
    /\ NonTerminalTexts = Fragments

(* C5: StreamAdvice never fails for per-city issues.  The call returns an   *)
(* error only if a send on the stream failed or the generative model raised  *)
(* a genuine error; when every city fails what is sent is the one terminal   *)
(* diagnostic chunk; otherwise, unless the call ends in such an error, what   *)
(* is sent is zero or more text chunks followed by exactly one terminal       *)
(* chunk with empty text.                                                     *)
C5_StreamFailsOnlyOnRelayOrGeneration ==
    Streaming =>
        /\ pc \in {"geocode", "weather", "collected"} => result = NoResult
        /\ result.kind = "error" => (FailedSends # {} \/ GenerationFailed)
        /\ Done =>
            /\ result.kind \in {"ok", "error"}
            /\ EveryCityFailed =>
                /\ Len(sent) = 1
                /\ sent[1].IsComplete
                /\ sent[1].Chunk = DiagnosticMessage(failedCities)
                /\ sent[1].Chunk[1] = "i could not get any weather data for any of the cities"
            /\ (~EveryCityFailed /\ result.kind = "ok") =>
                /\ Len(sent) >= 1
                /\ \A k \in 1..(Len(sent) - 1) : ~sent[k].IsComplete /\ sent[k].Chunk # <<>>
                /\ sent[Len(sent)].IsComplete
                /\ sent[Len(sent)].Chunk = <<>>

\* one city fails, the other succeeds, and the advice is streamed to its end
C5_Witness ==
    /\ Streaming /\ Done /\ result.kind = "ok"
    /\ Len(cities) = 2
    /\ CityFailed(1) /\ CitySucceeded(2)
    /\ Len(sent) >= 2
    /\ sent[Len(sent)].IsComplete

(* C6 as stated: only the end of the data is turned into the completion      *)
(* marker.  After any other error of iter.Next() the call has returned an     *)
(* error and no chunk with IsComplete = true was sent.                        *)
C6_OtherErrorsNeverComplete ==
    (Streaming /\ GenerationFailed) =>
        /\ Done
        /\ result.kind = "error"
        /\ TerminalChunks = {}

(* C7: when a send on the stream fails, StreamAdvice aborts at once: the    *)
(* failed send is the last one, the call has returned an error, and from     *)
(* then on no chunk is sent, nothing is pulled from the iterator and no      *)
(* collaborator is called.                                                   *)
C7_RelayFailureAborts ==
    /\ []((Streaming /\ FailedSends # {}) =>
            /\ FailedSends = {Len(sent)}
            /\ Done
            /\ result.kind = "error")
    /\ [][FailedSends # {} =>
            /\ sent' = sent
            /\ produced' = produced
            /\ calls' = calls /\ lateCalls' = lateCalls
            /\ result' = result
            /\ metrics' = metrics]_vars

\* the send of a fragment fails while parts of the response are still to be relayed
C7_Witness ==
    /\ Streaming /\ Done
    /\ FailedSends = {2}
    /\ ~sent[2].IsComplete
    /\ Len(pending) > 1
    /\ result.kind = "error"

(* C8 as stated: once the stream's context is cancelled, StreamAdvice issues *)
(* no further resolver or weather call and no generation call.               *)
C8_NoCallAfterCancel ==
    Streaming => lateCalls = {}

C10_ZeroCitiesDiagnostic ==
    (Streaming /\ Len(cities) = 0) =>
        /\ calls = <<>>
        /\ weatherData = <<>> /\ failedCities = <<>>
        /\ prompts = <<>> /\ produced = <<>>
        /\ pc \in {"collected", "done"}
        /\ pc = "collected" => sent = <<>>
        /\ Done =>
            /\ Len(sent) = 1
            /\ sent[1].IsComplete
            /\ sent[1].Chunk = <<"i could not get any weather data for any of the cities",
                                 "\nPlease check the city names and try again.">>
            /\ ~Contains(sent[1].Chunk, <<"\nFailed to get weather data for: ">>)

\* the request with no city has been answered
C10_Witness ==
    /\ Streaming /\ Done
    /\ cities = <<>>
    /\ Len(sent) = 1 /\ sent[1].ok
    /\ result.kind = "ok"

-----------------------------------------------------------------------------
(* Metrics *)

Outcomes == metrics.success + metrics.error

NothingRecorded == metrics = [success |-> 0, error |-> 0, samples |-> 0]

(* C11: every getAdvice call records exactly one outcome and one latency     *)
(* sample, wherever it ends (resolution, weather or generation failure, or    *)
(* success), and nothing before it returns; the outcome is success exactly    *)
(* when the call returns a response.                                          *)
C11_UnaryOneOutcomeOneSample ==
    Unary =>
        /\ ~Done => (NothingRecorded /\ result = NoResult)
        /\ Done =>
            /\ Outcomes = 1
            /\ metrics.samples = 1
            /\ result.kind \in {"response", "error"}
            /\ metrics.success = 1 <=> result.kind = "response"
            /\ metrics.error = 1 <=> result.kind = "error"

\* a call that ended on a weather failure of its second city
C11_Witness ==
    /\ Unary /\ Done
    /\ Len(calls) = 4 /\ calls[4].svc = "weather" /\ ~calls[4].ok
    /\ metrics = [success |-> 0, error |-> 1, samples |-> 1]

(* C12: every StreamAdvice call records exactly one outcome and one latency  *)
(* sample, at its completion and never before its last chunk is sent; the     *)
(* outcome is success when the stream finished, the all-failed diagnostic     *)
(* case included, and error only after a failed send or a generation error.   *)
C12_StreamOneOutcomeOneSample ==
    /\ [](Streaming =>
            /\ ~Done => (NothingRecorded /\ result = NoResult)
            /\ Done =>
                /\ Outcomes = 1
                /\ metrics.samples = 1
                /\ metrics.success = 1 <=> result.kind = "ok"
                /\ metrics.error = 1 <=> result.kind = "error"
                /\ metrics.error = 1 => (FailedSends # {} \/ GenerationFailed)
                /\ (TerminalChunks # {} /\ FailedSends = {}) => metrics.success = 1
                /\ metrics.success = 1 => (TerminalChunks = {Len(sent)} /\ FailedSends = {}))
    /\ [][(Streaming /\ ~NothingRecorded) => (sent' = sent /\ metrics' = metrics)]_vars

\* the diagnostic chunk of an all-failed request was sent and counted as a success
C12_Witness ==
    /\ Streaming /\ Done
    /\ Len(cities) = 2 /\ EveryCityFailed
    /\ Len(sent) = 1 /\ sent[1].ok
    /\ metrics = [success |-> 1, error |-> 0, samples |-> 1]

-----------------------------------------------------------------------------
(* The state machine of the streaming path *)

\* the state of the machine a StreamAdvice call is in
StreamState ==
    IF pc = "idle" THEN "IDLE"
    ELSE IF pc \in {"geocode", "weather"} THEN "COLLECTING"
    ELSE IF pc = "collected"
    THEN (IF Len(weatherData) = 0 THEN "ALL_FAILED" ELSE "PARTIAL_OR_FULL_SUCCESS")
    ELSE IF pc \in {"next", "relay"}
    THEN (IF produced = <<>> THEN "GENERATING" ELSE "EMITTING_CHUNKS")
    ELSE IF result.kind = "error" THEN "ERROR"
    ELSE IF prompts = <<>> THEN "DIAGNOSTIC_SENT"
    ELSE "COMPLETE"

TerminalStates == {"DIAGNOSTIC_SENT", "COMPLETE", "ERROR"}

\* the transitions of the stated machine.  A step of the model that crosses a
\* state without resting in it counts as the two transitions it is made of: a
\* request without cities enters and leaves COLLECTING at once, and an iterator
\* that ends at its first pull goes through EMITTING_CHUNKS for the terminal chunk.
StatedEdges ==
    {<<"IDLE", "COLLECTING">>,
     <<"IDLE", "ALL_FAILED">>,
     <<"COLLECTING", "ALL_FAILED">>,
     <<"ALL_FAILED", "DIAGNOSTIC_SENT">>,
     <<"COLLECTING", "PARTIAL_OR_FULL_SUCCESS">>,
     <<"PARTIAL_OR_FULL_SUCCESS", "GENERATING">>,
     <<"GENERATING", "EMITTING_CHUNKS">>,
     <<"EMITTING_CHUNKS", "COMPLETE">>,
     <<"GENERATING", "COMPLETE">>,
     <<"GENERATING", "ERROR">>,
     <<"EMITTING_CHUNKS", "ERROR">>}

\* mode' = "stream": the step belongs to a StreamAdvice call, its first step included
StepAlong(edges) ==
    (mode' = "stream" /\ StreamState' # StreamState) => <<StreamState, StreamState'>> \in edges

(* C13 as stated: every step of a StreamAdvice call is a transition of the   *)
(* stated machine: COLLECTING to ALL_FAILED to DIAGNOSTIC_SENT, or COLLECTING *)
(* to PARTIAL_OR_FULL_SUCCESS to GENERATING to EMITTING_CHUNKS to COMPLETE,   *)
(* with ERROR entered from GENERATING or EMITTING_CHUNKS only, and no         *)
(* transition out of a terminal state.                                        *)
C13_StatedMachine == [][StepAlong(StatedEdges)]_vars

(* C13 amended: the streaming path follows the stated machine with one more  *)
(* transition, ALL_FAILED to ERROR, taken when the send of the diagnostic     *)
(* chunk fails.  ERROR is entered from ALL_FAILED, GENERATING or              *)
(* EMITTING_CHUNKS only, on a failed send or a propagated generation error,   *)
(* never from COLLECTING through a per-city failure, and no transition        *)
(* leaves a terminal state.                                                   *)
C13_MachineWithDiagnosticError ==
    /\ [][StepAlong(StatedEdges \cup {<<"ALL_FAILED", "ERROR">>})]_vars
    /\ [][(mode' = "stream" /\ StreamState' = "ERROR" /\ StreamState # "ERROR") =>
            /\ StreamState \in {"ALL_FAILED", "GENERATING", "EMITTING_CHUNKS"}
            /\ (FailedSends' # {} \/ GenerationFailed')
            /\ StreamState = "ALL_FAILED" => FailedSends' = {1}]_vars
    /\ [][(Streaming /\ StreamState \in TerminalStates) => StreamState' = StreamState]_vars

\* a call that failed a city, streamed the advice for the other and completed
C13_Witness ==
    /\ Streaming /\ StreamState = "COMPLETE"
    /\ \E i \in 1..Len(cities) : CityFailed(i)
    /\ Len(sent) >= 3

-----------------------------------------------------------------------------
(* The order of the collaborator calls *)

CallsOf(svc, i) == {k \in 1..Len(calls) : calls[k].svc = svc /\ calls[k].i = i}

(* C14: no retry.  Within one getAdvice or StreamAdvice call each city gets  *)
(* at most one resolver call and at most one weather call, the weather call   *)
(* of a city comes right after the successful resolver call of that city,     *)
(* the cities are called one at a time in input order, and the generative     *)
(* model is invoked at most once, after every per-city call.                  *)
C14_NoRetryInOrder ==
    /\ \A i \in 1..Len(cities) :
        /\ Cardinality(CallsOf("geocode", i)) <= 1
        /\ Cardinality(CallsOf("weather", i)) <= 1
    /\ \A k \in 1..Len(calls) :
        /\ calls[k].svc \in {"geocode", "weather", "generate"}
        /\ calls[k].svc # "generate" => calls[k].i \in 1..Len(cities)
        /\ calls[k].svc = "weather" =>
            /\ k > 1
            /\ calls[k - 1].svc = "geocode"
            /\ calls[k - 1].i = calls[k].i
            /\ calls[k - 1].ok
        /\ calls[k].svc = "geocode" =>
            \A j \in 1..(k - 1) : calls[j].svc # "generate" /\ calls[j].i < calls[k].i
        /\ calls[k].svc = "generate" => k = Len(calls)
    /\ Cardinality(GeneratorCalls) <= 1
    /\ Len(prompts) = Cardinality(GeneratorCalls)

\* two cities resolved and given weather, then the generative model
C14_Witness ==
    /\ Len(cities) = 2
    /\ Len(calls) = 5
    /\ calls[5].svc = "generate"
    /\ CitySucceeded(1) /\ CitySucceeded(2)

-----------------------------------------------------------------------------
(* The resolver *)

\* the lookup was not reachable, answered another status than 200, sent a body
\* that does not decode, or found nothing
LookupFails(resp) ==
    \/ ~resp.reached
    \/ resp.status # 200
    \/ ~resp.decodes
    \/ Len(resp.results) = 0

(* C15: geocodeCity returns an error when the lookup is unreachable, answers *)
(* a non-success status, sends a body that cannot be parsed or finds no       *)
(* result; in every other case it returns no error and the coordinates of     *)
(* the first match.                                                           *)
C15_ResolverFailsOrFirstMatch ==
    \A k \in 1..Len(lookups) :
        LET l == lookups[k] IN
        /\ LookupFails(l.resp) =>
            (l.ret.err # NoErr /\ l.ret.lat = 0 /\ l.ret.lon = 0)
        /\ ~LookupFails(l.resp) =>
            /\ l.ret.err = NoErr
            /\ l.ret.lat = l.resp.results[1].lat
            /\ l.ret.lon = l.resp.results[1].lon

\* a lookup with two different matches, after a lookup answered with a failure status
C15_Witness ==
    /\ Len(lookups) = 2
    /\ lookups[1].resp.status = 503 /\ lookups[1].ret.err # NoErr
    /\ Len(lookups[2].resp.results) = 2
    /\ lookups[2].ret.err = NoErr

-----------------------------------------------------------------------------
(* The collection loop of StreamAdvice *)

\* the entries of failedCities the failed calls stand for, in the order of the calls
ExpectedFailed ==
    LET bad == SelectSeq(calls, LAMBDA c : c.svc # "generate" /\ ~c.ok)
    IN  [k \in 1..Len(bad) |->
            IF bad[k].svc = "weather"
            THEN <<cities[bad[k].i], " (weather failed)">>
            ELSE <<cities[bad[k].i]>>]

\* the cities the loop has gone through
Processed == idx - 1

(* C17: in StreamAdvice, after the first k cities have been processed, each  *)
(* of them stands in exactly one of the two lists: in weatherData if its      *)
(* resolution and its weather fetch succeeded, in failedCities otherwise,     *)
(* with a weather failure tagged apart from a resolution failure; the two     *)
(* lengths sum to k and each list keeps the order of the request.             *)
C17_CollectionLoopInvariant ==
    Streaming =>
        /\ Processed \in 0..Len(cities)
        /\ Len(weatherData) + Len(failedCities) = Processed
        /\ \A i \in 1..Processed : CitySucceeded(i) # CityFailed(i)
        /\ \A i \in (Processed + 1)..Len(cities) : ~CitySucceeded(i) /\ ~CityFailed(i)
        /\ Len(weatherData) = Cardinality({i \in 1..Len(cities) : CitySucceeded(i)})
        /\ Len(failedCities) = Cardinality({i \in 1..Len(cities) : CityFailed(i)})
        /\ weatherData = SuccessfulLines
        /\ failedCities = ExpectedFailed
        /\ \A k \in 1..Len(failedCities) :
            \/ failedCities[k] \in {<<c>> : c \in CityNames}
            \/ failedCities[k] \in {<<c, " (weather failed)">> : c \in CityNames}

\* two cities processed: a weather failure, then a resolution failure, of the same city
C17_Witness ==
    /\ Streaming /\ pc = "collected"
    /\ Len(cities) = 2 /\ cities[1] = cities[2]
    /\ failedCities = <<<<cities[1], " (weather failed)">>, <<cities[2]>>>>

-----------------------------------------------------------------------------
(* A request without cities *)

NoCities == mode # "none" /\ Len(cities) = 0

\* what getAdvice returns when generateAdvice fails
UnaryGenerationErrors ==
    {<<"advice generation failed: ", "gemini API failed: ">> \o e : e \in GenuineErrors}
        \cup {<<"advice generation failed: ", "no response generated">>}

(* C19: a getAdvice request without cities makes no resolver and no weather  *)
(* call, invokes the generative model exactly once, with a prompt that holds *)
(* no city line, and returns a response or an error according to the model's *)
(* answer alone; a StreamAdvice request without cities never invokes the     *)
(* generative model.                                                         *)
C19_EmptyInputAsymmetry ==
    /\ (Unary /\ NoCities) =>
        /\ \A k \in 1..Len(calls) : calls[k].svc = "generate"
        /\ Len(calls) <= 1 /\ Len(prompts) = Len(calls)
        /\ weatherData = <<>>
        /\ Done =>
            /\ Len(calls) = 1
            /\ prompts = <<<<UnaryPromptHead, UnaryPromptTail>>>>
            /\ CityLines(prompts[1]) = 0
            /\ result.kind \in {"response", "error"}
            /\ result.kind = "response" =>
                /\ calls[1].ok
                /\ result.err = NoErr
                /\ result.advice \in {TextOf(r[1]) : r \in Responses}
            /\ result.kind = "error" => result.err \in UnaryGenerationErrors
            /\ ~calls[1].ok =>
                /\ result.kind = "error"
                /\ result.err \in {<<"advice generation failed: ", "gemini API failed: ">> \o e :
                                      e \in GenuineErrors}
    /\ (Streaming /\ NoCities) => (GeneratorCalls = {} /\ prompts = <<>> /\ calls = <<>>)

\* a getAdvice call without cities that returned the model's advice
C19_Witness ==
    /\ Unary /\ NoCities /\ Done
    /\ result.kind = "response" /\ Len(result.advice) > 0
    /\ Len(calls) = 1

-----------------------------------------------------------------------------
(* Termination of StreamAdvice *)

\* the relay loop has met what ends it
RelayEnded == DataEnded \/ GenerationFailed \/ FailedSends # {}

(* C18: when every call to a collaborator returns and the iterator yields   *)
(* finitely many responses, every StreamAdvice call returns in a terminal    *)
(* outcome (diagnostic sent, complete, or error); and once the iterator has  *)
(* reported the end of the data or an error, or a send has failed, the call  *)
(* has returned and the iterator is never pulled again.                      *)
C18_StreamTerminates ==
    /\ Streaming ~> (Done /\ StreamState \in TerminalStates)
    /\ [](Streaming /\ RelayEnded => Done)
    /\ [][Streaming /\ RelayEnded => produced' = produced /\ sent' = sent]_vars
    /\ [][Done => pc' = "done"]_vars

\* the call has returned after the iterator gave two responses and then failed
C18_Witness ==
    /\ Streaming /\ Done /\ StreamState = "ERROR"
    /\ NumResponses = MaxResponses
    /\ GenerationFailed

-----------------------------------------------------------------------------
(* Concurrent calls.  gRPC runs every call of a handler in a goroutine of its *)
(* own.  What a call keeps is in the locals of its handler; the counter and   *)
(* the histogram are the package's variables, shared by all calls.  The       *)
(* variables of the model hold the locals of the goroutine that takes the     *)
(* next step; the locals of the other goroutines wait in others.              *)

\* the locals of the running call
Locals ==
    [pc |-> pc, mode |-> mode, cities |-> cities, idx |-> idx, coord |-> coord,
     weatherData |-> weatherData, failedCities |-> failedCities, pending |-> pending,
     calls |-> calls, lateCalls |-> lateCalls, prompts |-> prompts, produced |-> produced,
     sent |-> sent, cancelled |-> cancelled, result |-> result]

\* the locals of a call that has not begun
FreshCall ==
    [pc |-> "idle", mode |-> "none", cities |-> <<>>, idx |-> 1, coord |-> NoCoord,
     weatherData |-> <<>>, failedCities |-> <<>>, pending |-> <<>>,
     calls |-> <<>>, lateCalls |-> {}, prompts |-> <<>>, produced |-> <<>>,
     sent |-> <<>>, cancelled |-> FALSE, result |-> NoResult]

\* the scheduler gives the processor to the goroutine whose locals are l
Resume(l) ==
    /\ pc' = l.pc /\ mode' = l.mode /\ cities' = l.cities /\ idx' = l.idx
    /\ coord' = l.coord /\ weatherData' = l.weatherData
    /\ failedCities' = l.failedCities /\ pending' = l.pending
    /\ calls' = l.calls /\ lateCalls' = l.lateCalls /\ prompts' = l.prompts
    /\ produced' = l.produced /\ sent' = l.sent /\ cancelled' = l.cancelled
    /\ result' = l.result

\* a request arrives while another call is in flight: a new goroutine
Fork ==
    /\ pc # "idle"
    /\ BagCardinality(others) < MaxCalls - 1
    /\ others' = others (+) SetToBag({Locals})
    /\ Resume(FreshCall)
    /\ UNCHANGED <<metrics, lookups>>

\* a handler whose weatherData is a field of the service, not a local
SwitchSharesWeatherData ==
    /\ \E l \in BagToSet(others) :
        /\ others' = (others (-) SetToBag({l})) (+) SetToBag({Locals})
        /\ Resume([l EXCEPT !.weatherData = weatherData])
    /\ UNCHANGED <<metrics, lookups>>

\* the scheduler switches from the running goroutine to another one
Switch ==
    /\ \E l \in BagToSet(others) :
        /\ others' = (others (-) SetToBag({l})) (+) SetToBag({Locals})
        /\ Resume(l)
    /\ UNCHANGED <<metrics, lookups>>

\* the requests and the answers the concurrent calls are run on
ConcRequests == {<<>>, <<"Paris">>}

ConcObservations ==
    {[Temperature |-> 2250, Description |-> "clear sky", Humidity |-> 40, WindSpeed |-> 320]}

ConcResponses == {<<<<Text("Take a coat."), Blob>>, <<Text("Or stay in.")>>>>}

ConcIterErrors == {EOF, Unavailable}

ConcInputs ==
    /\ cities \in ConcRequests
    /\ coord \in {NoCoord, [lat |-> 488566, lon |-> 23522]}
    /\ \A k \in 1..Len(calls) : calls[k].weather \in ConcObservations \cup {NoObs}
    /\ \A k \in 1..Len(produced) :
        /\ produced[k].resp \in ConcResponses \cup {<<>>}
        /\ produced[k].err \in ConcIterErrors \cup {NoErr}
    /\ NumResponses <= 1

\* a step of the running call, or of the scheduler, on these requests and answers
ConcNext ==
    \/ GetAdvice /\ ConcInputs'
    \/ GetAdviceGeocode /\ ConcInputs'
    \/ GetAdviceWeather /\ ConcInputs'
    \/ GetAdviceGenerate /\ ConcInputs'
    \/ StreamAdvice /\ ConcInputs'
    \/ Cancel /\ ConcInputs'
    \/ StreamGeocode /\ ConcInputs'
    \/ StreamWeather /\ ConcInputs'
    \/ StreamDiagnostic /\ ConcInputs'
    \/ StreamGenerate /\ ConcInputs'
    \/ StreamNextResponse /\ ConcInputs'
    \/ StreamNextError /\ ConcInputs'
    \/ StreamRelay /\ ConcInputs'
    \/ Fork /\ ConcInputs'
    \/ Switch /\ ConcInputs'

ConcSpec == Init /\ [][ConcNext]_vars


\* the lists a call holds are what its own request and the answers to its own
\* collaborator calls make them, as in a call that runs alone
OwnLists(l) ==
    LET good   == SelectSeq(l.calls, LAMBDA c : c.svc = "weather" /\ c.ok)
        bad    == SelectSeq(l.calls, LAMBDA c : c.svc # "generate" /\ ~c.ok)
        lines  == [k \in 1..Len(good) |-> WeatherInfo(l.cities[good[k].i], good[k].weather)]
        failed == [k \in 1..Len(bad) |->
                      IF bad[k].svc = "weather"
                      THEN <<l.cities[bad[k].i], " (weather failed)">>
                      ELSE <<l.cities[bad[k].i]>>]
        nt     == SelectSeq(l.sent, LAMBDA c : ~c.IsComplete)
    IN  /\ l.weatherData = lines
        /\ l.failedCities = (IF l.mode = "stream" THEN failed ELSE <<>>)
        /\ Len(l.prompts) <= 1
        /\ l.prompts # <<>> =>
            l.prompts[1] = (IF l.mode = "stream" THEN StreamPrompt(lines) ELSE UnaryPrompt(lines))
        /\ IsPrefix([k \in 1..Len(nt) |-> nt[k].Chunk], FragmentsOf(l.produced))
        /\ l.mode = "unary" => l.sent = <<>>
        /\ (l.mode = "stream" /\ l.pc = "done" /\ l.result.kind = "ok") =>
            [k \in 1..Len(nt) |-> nt[k].Chunk] = FragmentsOf(l.produced)

\* the calls in flight or returned: the running one and the waiting ones
AllCalls == others (+) SetToBag({Locals})

\* how many of the calls satisfy P
CountCalls(P(_)) ==
    (IF P(Locals) THEN 1 ELSE 0)
        + BagCardinality([l \in {x \in BagToSet(others) : P(x)} |-> others[l]])

Returned(l) == l.pc = "done"

ReturnedError(l) == l.pc = "done" /\ l.result.kind = "error"

(* C16: calls that run at once share nothing but the counter and the         *)
(* histogram.  In every interleaving of the steps of MaxCalls getAdvice and   *)
(* StreamAdvice calls, the observation list, the failed-city list, the        *)
(* prompt and the chunks of each call are what its own request and the        *)
(* answers to its own collaborator calls make them, and the outcomes          *)
(* recorded are one per returned call: once all calls have returned, their    *)
(* total is the number of calls.                                             *)
C16_ConcurrentCallsIndependent ==
    /\ OwnLists(Locals)
    /\ \A l \in BagToSet(others) : OwnLists(l)
    /\ Outcomes = CountCalls(Returned)
    /\ metrics.samples = CountCalls(Returned)
    /\ metrics.error = CountCalls(ReturnedError)
    /\ (BagCardinality(others) = MaxCalls - 1 /\ CountCalls(Returned) = MaxCalls) =>
        (Outcomes = MaxCalls /\ metrics.samples = MaxCalls)

\* every call has returned: the running one streamed chunks of its own city,
\* another one is a getAdvice call that returned advice
C16_Witness ==
    /\ BagCardinality(AllCalls) = MaxCalls
    /\ \A l \in BagToSet(AllCalls) : Returned(l)
    /\ Streaming /\ Len(weatherData) = 1 /\ Len(sent) > 1
    /\ \E l \in BagToSet(others) :
        l.mode = "unary" /\ l.result.kind = "response" /\ Len(l.calls) = 3
    /\ Outcomes = MaxCalls

====
